---------------------------- MODULE Spec2Model ----------------------------
(***************************************************************************)
(* Versioned<T> of crates/treereduce/src/versioned.rs: a payload paired    *)
(* with a usize version counter.  The model is a client holding up to      *)
(* MaxSlots containers and calling the operations of the impl block, with  *)
(* T = bool.  usize is modelled with UsizeBits bits; `self.version + 1`    *)
(* follows the build's overflow-checks setting (panic, or two's-complement *)
(* wrap).  debug_assert! is compiled in or out; it has no effect on the    *)
(* state when it passes, so the setting is drawn at each call.             *)
(***************************************************************************)
EXTENDS Integers, FiniteSets, Sequences, TLC

UsizeBits == 2
MaxSlots == 2
\* Longest derivation chain explored.
MaxSteps == 5

UsizeMax == 2^UsizeBits - 1

Slots == 1..MaxSlots
Values == BOOLEAN
Transforms == {"id", "not"}

\* f(x) for the FnOnce(T) -> T arguments the client passes.
Apply(f, x) == IF f = "not" THEN ~x ELSE x

VARIABLES
    cs,                \* slot -> the Versioned { value, version } it holds
    live,              \* slots whose container has not been moved out of
    steps,             \* history: derivations since new() for each slot
    anc,               \* history: <<c, d>> when d descends from the container in c
    mc,                \* history: <<c, r>> when r = c.mutate_clone(f), both untouched since
    overflow_checks,   \* build setting: arithmetic overflow panics
    panicked,          \* "none", or why the thread panicked
    last               \* the most recent call: operation, arguments, result

vars == <<cs, live, steps, anc, mc, overflow_checks, panicked, last>>

Versioned(value, version) == [value |-> value, version |-> version]
Moved == Versioned(FALSE, 0)

\* Results of a call: a value, or a panic that unwinds out of it.
Ok(x) == [panic |-> "none", val |-> x]
PanicC(why) == [panic |-> why, val |-> Moved]
PanicB(why) == [panic |-> why, val |-> FALSE]

\* `n + 1` on usize.
Add1(n) ==
    IF n < UsizeMax THEN Ok(n + 1)
    ELSE IF overflow_checks THEN [panic |-> "overflow", val |-> 0]
    ELSE Ok(0)

extract(self) == self.value

get(self) == self.value

\* A faulty new, to test C1 against: the counter starts at 1.
new_from_one(value) == Versioned(value, 1)

new(value) == Versioned(value, 0)

\* A faulty inc, to test C3 against: the version is not bumped.
inc_no_bump(self) == Ok(Versioned(self.value, self.version))

inc(self) ==
    LET v == Add1(self.version)
    IN  IF v.panic # "none" THEN PanicC(v.panic)
        ELSE Ok(Versioned(self.value, v.val))

_modify(self, value) ==
    LET v == Add1(self.version)
    IN  IF v.panic # "none" THEN PanicC(v.panic)
        ELSE Ok(Versioned(value, v.val))

\* A faulty old_version, to test C10 against: the `+ 1` is dropped.
old_version_no_succ(self, other) == Ok(self.version = other.version)

old_version(self, other) ==
    LET v == Add1(self.version)
    IN  IF v.panic # "none" THEN PanicB(v.panic)
        ELSE Ok(v.val = other.version)

_same_version(self, other) == Ok(self.version = other.version)

\* _mutate returns (): only whether it panicked is observable.
_mutate(self, f) ==
    LET r == [self EXCEPT !.value = Apply(f, self.value)]
    IN  inc(r).panic

mutate_clone(self, f, debug_assertions) ==
    LET r   == [self EXCEPT !.value = Apply(f, self.value)]
        ret == inc(r)
        chk == old_version(self, ret.val)
    IN  IF ret.panic # "none" THEN ret
        ELSE IF ~debug_assertions THEN ret
        ELSE IF chk.panic # "none" THEN PanicC(chk.panic)
        ELSE IF ~chk.val THEN PanicC("assert")
        ELSE ret

-----------------------------------------------------------------------------
NoCall == [op |-> "none", a |-> 0, b |-> 0, dst |-> 0, pre |-> Moved,
           f |-> "id", v |-> FALSE, ok |-> TRUE, retc |-> Moved, retv |-> FALSE,
           retb |-> FALSE]

Free == Slots \ live
FreeSlot == CHOOSE d \in Free : \A e \in Free : d <= e
Running == panicked = "none"

\* History bookkeeping: slot s is moved out of; slot d receives a container
\* derived from the one in s.
Drop(rel, s) == {p \in rel : p[1] # s /\ p[2] # s}
Rebind(rel, s) == {p \in rel : p[1] # s} \cup {<<s, s>>}
Derive(rel, s, d) == rel \cup {<<p[1], d>> : p \in {q \in rel : q[2] = s}} \cup {<<d, d>>}

Init ==
    /\ cs = [s \in Slots |-> Moved]
    /\ live = {}
    /\ steps = [s \in Slots |-> 0]
    /\ anc = {}
    /\ mc = {}
    /\ overflow_checks \in BOOLEAN
    /\ panicked = "none"
    /\ last = NoCall

New(value) ==
    /\ Running /\ Free # {}
    /\ LET d == FreeSlot
       IN  /\ cs' = [cs EXCEPT ![d] = new(value)]
           /\ live' = live \cup {d}
           /\ steps' = [steps EXCEPT ![d] = 0]
           /\ last' = [NoCall EXCEPT !.op = "new", !.dst = d, !.v = value,
                                     !.retc = new(value)]
    /\ UNCHANGED <<overflow_checks, panicked>>

Extract(s) ==
    /\ Running /\ s \in live
    /\ cs' = [cs EXCEPT ![s] = Moved]
    /\ live' = live \ {s}
    /\ steps' = [steps EXCEPT ![s] = 0]
    /\ last' = [NoCall EXCEPT !.op = "extract", !.a = s, !.pre = cs[s],
                              !.retv = extract(cs[s])]
    /\ UNCHANGED <<overflow_checks, panicked>>

\* A faulty Get, to test C7 against: get re-stamps the container.
Get_restamps(s) ==
    /\ Running /\ s \in live
    /\ cs' = [cs EXCEPT ![s] = Versioned(cs[s].value, (cs[s].version + 1) % (UsizeMax + 1))]
    /\ last' = [NoCall EXCEPT !.op = "get", !.a = s, !.pre = cs[s],
                              !.retv = get(cs[s])]
    /\ UNCHANGED <<live, steps, overflow_checks, panicked>>

Get(s) ==
    /\ Running /\ s \in live
    /\ last' = [NoCall EXCEPT !.op = "get", !.a = s, !.pre = cs[s],
                              !.retv = get(cs[s])]
    /\ UNCHANGED <<cs, live, steps, overflow_checks, panicked>>

Inc(s) ==
    /\ Running /\ s \in live /\ steps[s] < MaxSteps
    /\ LET r == inc(cs[s])
       IN  /\ panicked' = r.panic
           /\ last' = [NoCall EXCEPT !.op = "inc", !.a = s, !.dst = s, !.pre = cs[s],
                                     !.ok = (r.panic = "none"), !.retc = r.val]
           /\ IF r.panic = "none"
              THEN /\ cs' = [cs EXCEPT ![s] = r.val]
                   /\ live' = live
                   /\ steps' = [steps EXCEPT ![s] = @ + 1]
              ELSE /\ cs' = [cs EXCEPT ![s] = Moved]
                   /\ live' = live \ {s}
                   /\ steps' = [steps EXCEPT ![s] = 0]
    /\ UNCHANGED <<overflow_checks>>

Mutate(s, f) ==
    /\ Running /\ s \in live /\ steps[s] < MaxSteps
    /\ panicked' = _mutate(cs[s], f)
    /\ cs' = [cs EXCEPT ![s] = Moved]
    /\ live' = live \ {s}
    /\ steps' = [steps EXCEPT ![s] = 0]
    /\ last' = [NoCall EXCEPT !.op = "_mutate", !.a = s, !.pre = cs[s], !.f = f,
                              !.ok = (_mutate(cs[s], f) = "none")]
    /\ UNCHANGED <<overflow_checks>>

\* The returned container is bound to a free handle when there is one;
\* otherwise it is a temporary, dropped after the call.
MutateClone(s, f, debug_assertions) ==
    /\ Running /\ s \in live /\ steps[s] < MaxSteps
    /\ LET r == mutate_clone(cs[s], f, debug_assertions)
           kept == r.panic = "none" /\ Free # {}
           d == IF kept THEN FreeSlot ELSE 0
       IN  /\ panicked' = r.panic
           /\ last' = [NoCall EXCEPT !.op = "mutate_clone", !.a = s, !.pre = cs[s],
                                     !.f = f, !.ok = (r.panic = "none"),
                                     !.dst = d, !.retc = r.val]
           /\ IF kept
              THEN /\ cs' = [cs EXCEPT ![d] = r.val]
                   /\ live' = live \cup {d}
                   /\ steps' = [steps EXCEPT ![d] = steps[s] + 1]
              ELSE UNCHANGED <<cs, live, steps>>
    /\ UNCHANGED <<overflow_checks>>

Modify(s, value) ==
    /\ Running /\ s \in live /\ steps[s] < MaxSteps
    /\ LET r == _modify(cs[s], value)
           kept == r.panic = "none" /\ Free # {}
           d == IF kept THEN FreeSlot ELSE 0
       IN  /\ panicked' = r.panic
           /\ last' = [NoCall EXCEPT !.op = "_modify", !.a = s, !.pre = cs[s],
                                     !.v = value, !.ok = (r.panic = "none"),
                                     !.dst = d, !.retc = r.val]
           /\ IF kept
              THEN /\ cs' = [cs EXCEPT ![d] = r.val]
                   /\ live' = live \cup {d}
                   /\ steps' = [steps EXCEPT ![d] = steps[s] + 1]
              ELSE UNCHANGED <<cs, live, steps>>
    /\ UNCHANGED <<overflow_checks>>

OldVersion(a, b) ==
    /\ Running /\ a \in live /\ b \in live
    /\ LET r == old_version(cs[a], cs[b])
       IN  /\ panicked' = r.panic
           /\ last' = [NoCall EXCEPT !.op = "old_version", !.a = a, !.b = b,
                                     !.pre = cs[a], !.ok = (r.panic = "none"),
                                     !.retb = r.val]
    /\ UNCHANGED <<cs, live, steps, overflow_checks>>

SameVersion(a, b) ==
    /\ Running /\ a \in live /\ b \in live
    /\ LET r == _same_version(cs[a], cs[b])
       IN  last' = [NoCall EXCEPT !.op = "_same_version", !.a = a, !.b = b,
                                  !.pre = cs[a], !.retb = r.val]
    /\ UNCHANGED <<cs, live, steps, overflow_checks, panicked>>

\* The lineage history after the call recorded in c.
AncAfter(rel, c) ==
    CASE c.op = "new" -> rel \cup {<<c.dst, c.dst>>}
      [] c.op \in {"extract", "_mutate"} -> Drop(rel, c.a)
      [] c.op = "inc" -> IF c.ok THEN Rebind(rel, c.a) ELSE Drop(rel, c.a)
      [] c.op \in {"mutate_clone", "_modify"} ->
            IF c.dst # 0 THEN Derive(rel, c.a, c.dst) ELSE rel
      [] OTHER -> rel

McAfter(rel, c) ==
    CASE c.op \in {"extract", "_mutate", "inc"} -> Drop(rel, c.a)
      [] c.op = "mutate_clone" -> IF c.dst # 0 THEN rel \cup {<<c.a, c.dst>>} ELSE rel
      [] OTHER -> rel

\* The lineage history is not recorded.
NoLineage == UNCHANGED <<anc, mc>>

\* The lineage history follows the call just made.
Lineage == anc' = AncAfter(anc, last') /\ mc' = McAfter(mc, last')

Next ==
    \/ (\E v \in Values : New(v)) /\ NoLineage
    \/ (\E s \in Slots : Extract(s)) /\ NoLineage
    \/ (\E s \in Slots : Get(s)) /\ NoLineage
    \/ (\E s \in Slots : Inc(s)) /\ NoLineage
    \/ (\E s \in Slots, f \in Transforms : Mutate(s, f)) /\ NoLineage
    \/ (\E s \in Slots, f \in Transforms, da \in BOOLEAN : MutateClone(s, f, da)) /\ NoLineage
    \/ (\E s \in Slots, v \in Values : Modify(s, v)) /\ NoLineage
    \/ (\E a, b \in Slots : OldVersion(a, b)) /\ NoLineage
    \/ (\E a, b \in Slots : SameVersion(a, b)) /\ NoLineage

NextLineage ==
    \/ (\E v \in Values : New(v)) /\ Lineage
    \/ (\E s \in Slots : Extract(s)) /\ Lineage
    \/ (\E s \in Slots : Get(s)) /\ Lineage
    \/ (\E s \in Slots : Inc(s)) /\ Lineage
    \/ (\E s \in Slots, f \in Transforms : Mutate(s, f)) /\ Lineage
    \/ (\E s \in Slots, f \in Transforms, da \in BOOLEAN : MutateClone(s, f, da)) /\ Lineage
    \/ (\E s \in Slots, v \in Values : Modify(s, v)) /\ Lineage
    \/ (\E a, b \in Slots : OldVersion(a, b)) /\ Lineage
    \/ (\E a, b \in Slots : SameVersion(a, b)) /\ Lineage

Spec == Init /\ [][Next]_vars

\* The same calls, with the lineage of the containers recorded.
SpecLineage == Init /\ [][NextLineage]_vars

-----------------------------------------------------------------------------
Derivations == {"inc", "mutate_clone", "_modify"}
ReadOnly == {"get", "old_version", "_same_version"}

\* C1: new(v) yields a container at version 0 holding v, and extract applied
\* to the container new(v) just returned gives back exactly v.
C1_NewExtract ==
    [][ /\ last'.op = "new" =>
             /\ last'.retc = Versioned(last'.v, 0)
             /\ cs'[last'.dst] = last'.retc
        /\ (last.op = "new" /\ last'.op = "extract" /\ last'.a = last.dst) =>
             last'.retv = last.v ]_vars

C1_Witness ==
    last.op = "extract" /\ last.pre = new(TRUE) /\ last.retv = TRUE

\* C2 (as claimed): a mutate_clone that returns leaves c as it was and returns
\* a container holding f(get(c)) at version c.version + 1.
C2_MutateCloneBumps ==
    (last.op = "mutate_clone" /\ last.ok) =>
        /\ last.a \in live /\ cs[last.a] = last.pre
        /\ last.retc.value = Apply(last.f, get(last.pre))
        /\ last.retc.version = last.pre.version + 1

\* C3: whenever mutate_clone(c, f) returns r, old_version(c, r) is true, and
\* the debug assertion in mutate_clone never fails.
C3_AssertHolds ==
    /\ panicked # "assert"
    /\ (last.op = "mutate_clone" /\ last.ok) =>
           old_version(last.pre, last.retc) = Ok(TRUE)

\* The case at the top of the counter, where the sum has wrapped.
C3_Witness ==
    /\ last.op = "mutate_clone" /\ last.ok /\ last.dst # 0
    /\ last.pre.version = UsizeMax
    /\ old_version(cs[last.a], cs[last.dst]) = Ok(TRUE)

\* C4 (as claimed): an inc that returns gives a container with c's payload
\* and version exactly c.version + 1.
C4_IncBumps ==
    (last.op = "inc" /\ last.ok) =>
        last.retc = Versioned(last.pre.value, last.pre.version + 1)

\* C5 (as claimed): no call panics, and every container in existence can be
\* advanced again by inc, to version + 1.
C5_Total ==
    /\ panicked = "none"
    /\ \A s \in live :
          /\ inc(cs[s]).panic = "none"
          /\ inc(cs[s]).val.version = cs[s].version + 1

\* C6 (as claimed): when r1 and r2 both come from mutate_clone on the same
\* untouched c, each is at version c.version + 1, _same_version(r1, r2) is
\* true, and c is still what it was.
C6_Siblings ==
    \A r1 \in live :
        (/\ last.op = "mutate_clone" /\ last.ok
         /\ <<last.a, r1>> \in mc /\ r1 # last.dst) =>
            /\ cs[last.a] = last.pre
            /\ cs[r1].version = last.pre.version + 1
            /\ last.retc.version = last.pre.version + 1
            /\ _same_version(cs[r1], last.retc) = Ok(TRUE)

\* C7: get, old_version and _same_version leave every container as it was.
C7_ReadOnlyFrame ==
    [][ last'.op \in ReadOnly => (cs' = cs /\ live' = live) ]_vars

C7_Witness ==
    /\ last.op = "old_version" /\ last.ok
    /\ live = Slots /\ last.a # last.b

\* C8 (as claimed): old_version(a, b) is `a.version + 1 == b.version` on
\* usize, and so for d reached from c by k derivation steps, old_version(c, d)
\* is true exactly when k = 1.
C8_OneStep ==
    \A c, d \in live :
        LET r == old_version(cs[c], cs[d])
        IN  (<<c, d>> \in anc /\ r.panic = "none") =>
                /\ r.val <=> ((cs[c].version + 1) % (UsizeMax + 1) = cs[d].version)
                /\ r.val <=> (steps[d] - steps[c] = 1)

\* C9 (as claimed): the version of every container is the number of
\* derivations since its new(), and every derivation bumps by exactly 1.
C9_VersionCountsSteps ==
    /\ \A s \in live : cs[s].version = steps[s]
    /\ (last.op \in Derivations /\ last.ok) =>
           last.retc.version = last.pre.version + 1

\* C10: _same_version is equality of versions, reflexive and symmetric;
\* old_version and _same_version never both return true; old_version(a, a)
\* never returns true; old_version(a, b) and old_version(b, a) never both do.
C10_Relations ==
    /\ \A a, b \in live :
          LET ab == old_version(cs[a], cs[b])
              ba == old_version(cs[b], cs[a])
              sv == _same_version(cs[a], cs[b])
          IN  /\ sv.panic = "none"
              /\ sv.val <=> (cs[a].version = cs[b].version)
              /\ _same_version(cs[a], cs[a]).val
              /\ sv.val <=> _same_version(cs[b], cs[a]).val
              /\ ~(ab.val /\ sv.val)
              /\ ~old_version(cs[a], cs[a]).val
              /\ ~(ab.val /\ ba.val)
    /\ (last.op = "old_version" /\ last.retb) =>
           /\ last.a # last.b
           /\ ~_same_version(cs[last.a], cs[last.b]).val

\* old_version has returned true across the wrap of the counter.
C10_Witness ==
    /\ last.op = "old_version" /\ last.retb
    /\ cs[last.a].version = UsizeMax /\ cs[last.b].version = 0
-----------------------------------------------------------------------------
(***************************************************************************)
(* What C2, C4, C5, C6, C8 and C9 come to away from the top of the         *)
(* counter: each holds of every call on a container whose version is       *)
(* below usize::MAX, and of every chain that has not overflowed.           *)
(***************************************************************************)
BelowMax(c) == c.version < UsizeMax

C2_BelowMax ==
    (last.op = "mutate_clone" /\ BelowMax(last.pre)) =>
        /\ last.ok
        /\ last.a \in live /\ cs[last.a] = last.pre
        /\ last.retc.value = Apply(last.f, get(last.pre))
        /\ last.retc.version = last.pre.version + 1

C4_BelowMax ==
    (last.op = "inc" /\ BelowMax(last.pre)) =>
        /\ last.ok
        /\ last.retc = Versioned(last.pre.value, last.pre.version + 1)

C5_BelowMax ==
    /\ panicked # "none" =>
          /\ panicked = "overflow" /\ overflow_checks
          /\ ~BelowMax(last.pre)
          /\ last.op \in Derivations \cup {"_mutate", "old_version"}
    /\ \A s \in live :
          BelowMax(cs[s]) =>
              inc(cs[s]) = Ok(Versioned(cs[s].value, cs[s].version + 1))

C6_BelowMax ==
    \A r1 \in live :
        (/\ last.op = "mutate_clone" /\ BelowMax(last.pre)
         /\ <<last.a, r1>> \in mc /\ r1 # last.dst) =>
            /\ last.ok
            /\ cs[last.a] = last.pre
            /\ cs[r1].version = last.pre.version + 1
            /\ last.retc.version = last.pre.version + 1
            /\ _same_version(cs[r1], last.retc) = Ok(TRUE)

C8_BelowMax ==
    \A c, d \in live :
        (<<c, d>> \in anc /\ steps[d] <= UsizeMax /\ BelowMax(cs[c])) =>
            old_version(cs[c], cs[d]) = Ok(steps[d] - steps[c] = 1)

C9_BelowMax ==
    /\ \A s \in live : steps[s] <= UsizeMax => cs[s].version = steps[s]
    /\ \A s \in live : cs[s].version = steps[s] % (UsizeMax + 1)
    /\ (last.op \in Derivations /\ BelowMax(last.pre)) =>
           last.ok /\ last.retc.version = last.pre.version + 1
=============================================================================
